---- MODULE Spec2Model ----
(***************************************************************************)
(* Chunked file transfer with fault injection: the two protocol variants   *)
(* of the repository.                                                      *)
(*                                                                         *)
(*   "mayhem"     The-Multi-Client-Mayhem/server.py handle_client and      *)
(*                The-Multi-Client-Mayhem/client.py upload_file            *)
(*   "first_task" first_task/server.py FileTransferServer and              *)
(*                first_task/client.py FileTransferClient                  *)
(*                                                                         *)
(* One session (one connection) is modelled.  Init chooses the variant,    *)
(* the uploaded file and the configuration; every action is one step of    *)
(* one peer between two blocking socket calls.                             *)
(*                                                                         *)
(* Bytes are scaled to one bit and CHUNK_SIZE to a few bytes.  Digests are *)
(* collision free: a digest is its input under a tag.                      *)
(*                                                                         *)
(* The mayhem variant writes unframed messages: the client's recv of the   *)
(* checksum may return the checksum and the chunk count merged, and its    *)
(* recv of a chunk message may return only a part of it.  The first_task   *)
(* variant frames its messages; a frame is read whole in Spec.             *)
(*                                                                         *)
(* Three further specifications take one part of the programs on its own:  *)
(*   ReceiverSpec  the mayhem client's receive loop against any peer       *)
(*   PureSpec      splitting and reassembly, every buffer and chunk size   *)
(*   FrameSpec     first_task framing byte by byte, with partial reads     *)
(*                 and the end of the stream                               *)
(*                                                                         *)
(* slog and clog are history variables: what the sender and the receiver   *)
(* did, in order.  first_task starts them afresh with every upload attempt.*)
(***************************************************************************)
EXTENDS Integers, Sequences, FiniteSets, TLC

\* ------------------------------------------------------------ bounds
MaxFileLen == 5
CHUNK_SIZE == 2
MaxRetriesBound == 1

Byte == {0, 1}

Min(a, b) == IF a < b THEN a ELSE b

\* the uploaded files: the prefixes of a constant stream and of a stream whose
\* chunks differ from one another
Patterns == {<<0, 0, 0, 0, 0, 0, 0, 0>>, <<0, 1, 1, 0, 1, 0, 0, 1>>}
Files == {SubSeq(p, 1, n) : p \in Patterns, n \in 0..MaxFileLen}

\* ------------------------------------------------------------ pure functions

\* hashlib.sha256(data).hexdigest(), collision free
calculate_checksum(data) == <<"sha256", data>>

\* hashlib.md5(chunk).hexdigest(), collision free
md5(data) == <<"md5", data>>

\* the literal the fault injector puts in place of the chunk digest
corrupted_checksum == <<"corrupted_checksum">>

\* bytes.hex(): two hexadecimal digits per byte
hex(data) ==
    [k \in 1..(2 * Len(data)) |->
        IF k % 2 = 1 THEN data[(k + 1) \div 2] \div 16 ELSE data[k \div 2] % 16]

\* bytes.fromhex()
fromhex(h) == [k \in 1..(Len(h) \div 2) |-> 16 * h[2 * k - 1] + h[2 * k]]

\* number of chunks of: for i in range(0, len(file_data), CHUNK_SIZE)
NumChunks(data) == (Len(data) + CHUNK_SIZE - 1) \div CHUNK_SIZE

\* Slices keeping only the slices that are n bytes long
Slices_Whole(data, n) ==
    [k \in 1..(Len(data) \div n) |-> SubSeq(data, (k - 1) * n + 1, k * n)]

\* [data[i:i+n] for i in range(0, len(data), n)]
Slices(data, n) ==
    [k \in 1..((Len(data) + n - 1) \div n) |->
        SubSeq(data, (k - 1) * n + 1, Min(k * n, Len(data)))]

\* file_data[i:i+CHUNK_SIZE] for i in range(0, len(file_data), CHUNK_SIZE);
\* chunk of sequence number s is SplitChunks(data)[s + 1]
SplitChunks(data) == Slices(data, CHUNK_SIZE)

\* Reassemble going through the sequence numbers from the highest down
RECURSIVE Reassemble_Reversed(_, _)
Reassemble_Reversed(buf, n) ==
    IF n = 0 THEN <<>>
    ELSE (IF (n - 1) \in DOMAIN buf THEN buf[n - 1] ELSE <<>>)
         \o Reassemble_Reversed(buf, n - 1)

\* reassembled_data += chunks[i] for i in range(num_chunks) if i in chunks
RECURSIVE Reassemble(_, _)
Reassemble(buf, n) ==
    IF n = 0 THEN <<>>
    ELSE Reassemble(buf, n - 1) \o (IF (n - 1) \in DOMAIN buf THEN buf[n - 1] ELSE <<>>)

\* chunk messages numbered from one
ChunkJson_OneBased(seq, chunk, sum) ==
    [type |-> "chunk", sequence |-> seq + 1, data |-> hex(chunk), chunk_checksum |-> sum]

\* chunk_data = {"sequence", "client_id", "data", "chunk_checksum"} as sent
ChunkJson(seq, chunk, sum) ==
    [type |-> "chunk", sequence |-> seq, data |-> hex(chunk), chunk_checksum |-> sum]

Msg(t) == [type |-> t]
Ev(e, s, x) == [ev |-> e, seq |-> s, x |-> x]
EOF == Msg("eof")
EmptyBuf == [s \in {} |-> <<>>]

\* ------------------------------------------------------------ state
VARIABLES
    variant,         \* which of the two programs runs
    file,            \* the bytes of the uploaded file
    errorsOn,        \* ERROR_RATE > 0 / simulate_errors
    cpc, spc,        \* position of the client and of the server handler
    s2c, c2s,        \* bytes in flight, as the messages written by sendall
    file_size,       \* server: the declared size of the upload
    file_data,       \* server: the bytes it received
    chunks,          \* server: the chunk list
    i,               \* server: index of the for loop over chunks
    json_data,       \* server: the chunk message about to be sent
    server_checksum, \* client: the declared whole-file digest
    num_chunks,      \* client: the declared chunk count
    iter,            \* client: iterations of the receive loop consumed
    received,        \* client: chunks / received_chunks, sequence -> payload
    result,          \* client: the verdict sent / the value returned
    output,          \* client: the file written, or "none"
    retry_count,     \* first_task client: self.retry_count
    max_retries,     \* first_task client: self.max_retries
    chunk_size,      \* first_task server: self.chunk_size
    reader,          \* framing: "client" receive_response, "server" receive_request
    stream,          \* framing: the bytes written and not yet read
    msg_len,         \* framing: the length decoded from the prefix
    bytes_received,  \* framing: the payload bytes read so far
    listener,        \* server: the connections its accept loop is handling itself
    backlog,         \* server: the connections made and not yet accepted
    sess,            \* several sessions: the state of each connection
    client_data,     \* mayhem server: the global dictionary client_data
    sweeps,          \* mayhem server: the cleanup threads that are sleeping
    slog,            \* history: what the sender did, in order
    clog             \* history: what the receiver did, in order

vars == <<variant, file, errorsOn, cpc, spc, s2c, c2s, file_size, file_data, chunks, i,
          json_data, server_checksum, num_chunks, iter, received, result,
          output, retry_count, max_retries, chunk_size, reader, stream, msg_len,
          bytes_received, listener, backlog, sess, client_data, sweeps, slog, clog>>

frameVars == <<reader, stream, msg_len, bytes_received>>
multiVars == <<listener, backlog, sess, client_data, sweeps>>
config == <<variant, file, errorsOn, max_retries, chunk_size, frameVars, multiVars>>
serverVars == <<file_size, file_data, chunks, i, json_data>>
clientVars == <<server_checksum, num_chunks, iter, received, result, output, retry_count>>

\* the session model keeps every frame whole: the framing variables rest
NoFraming ==
    /\ reader = "none"
    /\ stream = <<>>
    /\ msg_len = 0
    /\ bytes_received = <<>>

\* one session on its own: no listener, no other connection
NoSessions ==
    /\ listener = {}
    /\ backlog = <<>>
    /\ sess = <<>>
    /\ client_data = <<>>
    /\ sweeps = {}

Init ==
    /\ variant \in {"mayhem", "first_task"}
    /\ file \in Files
    /\ errorsOn \in BOOLEAN
    /\ max_retries \in (IF variant = "first_task" THEN 0..MaxRetriesBound ELSE {0})
    /\ chunk_size = CHUNK_SIZE
    /\ NoFraming
    /\ NoSessions
    /\ retry_count = 0
    /\ cpc = (IF variant = "mayhem" THEN "connect" ELSE "upload")
    /\ spc = (IF variant = "mayhem" THEN "accept" ELSE "handle_client")
    /\ s2c = <<>>
    /\ c2s = <<>>
    /\ file_size = 0
    /\ file_data = <<>>
    /\ chunks = <<>>
    /\ i = 0
    /\ json_data = Msg("none")
    /\ server_checksum = Msg("none")
    /\ num_chunks = 0
    /\ iter = 0
    /\ received = EmptyBuf
    /\ result = "none"
    /\ output = "none"
    /\ slog = <<>>
    /\ clog = <<>>

Mayhem == variant = "mayhem"
FirstTask == variant = "first_task"

\* conn.recv() has something to return: data, or end of stream
CanRecvC == s2c # <<>> \/ spc = "closed"
CanRecvS == c2s # <<>> \/ cpc = "closed"
HeadC == IF s2c # <<>> THEN Head(s2c) ELSE EOF
HeadS == IF c2s # <<>> THEN Head(c2s) ELSE EOF
TailC == IF s2c # <<>> THEN Tail(s2c) ELSE <<>>
TailS == IF c2s # <<>> THEN Tail(c2s) ELSE <<>>

\* ------------------------------------------------------------ mayhem client

\* client.py 30-41: connect, read the file, send its size
MC_SendSize ==
    /\ Mayhem /\ cpc = "connect"
    /\ c2s' = Append(c2s, [type |-> "size", n |-> Len(file)])
    /\ cpc' = "wait_size_ack"
    /\ UNCHANGED <<config, spc, s2c, serverVars, clientVars, slog, clog>>

\* client.py 44-47: wait for the acknowledgment, send the file bytes
MC_SendFile ==
    /\ Mayhem /\ cpc = "wait_size_ack" /\ CanRecvC
    /\ s2c' = TailC
    /\ c2s' = IF Len(file) > 0 THEN Append(c2s, [type |-> "file", data |-> file]) ELSE c2s
    /\ cpc' = "wait_checksum"
    /\ UNCHANGED <<config, spc, serverVars, clientVars, slog, clog>>

\* client.py 50-59: receive the checksum; two writes of the server that are
\* both in the stream may be returned by one recv(1024)
MC_RecvChecksum ==
    /\ Mayhem /\ cpc = "wait_checksum" /\ CanRecvC
    /\ \E merged \in BOOLEAN :
        /\ merged => Len(s2c) >= 2
        /\ LET m == IF merged THEN [type |-> "merged", parts |-> SubSeq(s2c, 1, 2)] ELSE HeadC
               rest == IF merged THEN Tail(Tail(s2c)) ELSE TailC
               local_checksum == calculate_checksum(file)
               mismatch == m.type # "checksum" \/ m.value # local_checksum
           IN /\ s2c' = rest
              /\ server_checksum' = m
              /\ cpc' = IF mismatch THEN "closed" ELSE "wait_count"
              /\ clog' = IF mismatch THEN Append(clog, Ev("abort", 0, "initial_mismatch")) ELSE clog
    /\ UNCHANGED <<config, spc, c2s, serverVars, num_chunks, iter, received, result,
                   output, retry_count, slog>>

\* client.py 62-69: receive the number of chunks, acknowledge, empty buffer
MC_RecvCount ==
    /\ Mayhem /\ cpc = "wait_count" /\ CanRecvC
    /\ s2c' = TailC
    /\ IF HeadC.type = "count"
       THEN /\ num_chunks' = HeadC.n
            /\ c2s' = Append(c2s, Msg("OK"))
            /\ received' = EmptyBuf
            /\ iter' = 0
            /\ cpc' = "loop"
            /\ clog' = clog
       ELSE \* int() raises ValueError: outer except, close
            /\ cpc' = "closed"
            /\ clog' = Append(clog, Ev("abort", 0, "exception"))
            /\ UNCHANGED <<num_chunks, c2s, received, iter>>
    /\ UNCHANGED <<config, spc, serverVars, server_checksum, result, output,
                   retry_count, slog>>

\* client.py 71: range(num_chunks * 2) is used up
MC_LoopExhausted ==
    /\ Mayhem /\ cpc = "loop" /\ iter = num_chunks * 2
    /\ cpc' = "final"
    /\ clog' = Append(clog, Ev("exhausted", 0, iter))
    /\ UNCHANGED <<config, spc, s2c, c2s, serverVars, clientVars, slog>>

\* client.py 73-81 and 118-121: receive the chunk length
MC_RecvLen ==
    /\ Mayhem /\ cpc = "loop" /\ iter < num_chunks * 2 /\ CanRecvC
    /\ s2c' = TailC
    /\ iter' = iter + 1
    /\ IF HeadC.type = "TRANSFER_COMPLETE"
       THEN /\ cpc' = "final"
            /\ c2s' = c2s
            /\ clog' = Append(clog, Ev("end_in_loop", Cardinality(DOMAIN received), "TRANSFER_COMPLETE"))
       ELSE IF HeadC.type = "len"
       THEN /\ cpc' = "wait_json"
            /\ c2s' = Append(c2s, Msg("OK"))
            /\ clog' = clog
       ELSE \* int() raises ValueError: except Exception, send ERROR, break
            /\ cpc' = "final"
            /\ c2s' = Append(c2s, Msg("ERROR"))
            /\ clog' = Append(clog, Ev("error", 0, "exception"))
    /\ UNCHANGED <<config, spc, serverVars, server_checksum, num_chunks, received,
                   result, output, retry_count, slog>>

\* MC_Verify with the comparison left out: every chunk is accepted
MC_Verify_NoCheck(m) == TRUE

\* client.py 95: hashlib.md5(data).hexdigest() != chunk_checksum is false
MC_Verify(m) == md5(fromhex(m.data)) = m.chunk_checksum

\* MC_Store without the membership test: the last payload wins
MC_Store_Overwrite(buf, seq, data) ==
    [s \in DOMAIN buf \cup {seq} |-> IF s = seq THEN data ELSE buf[s]]

\* client.py 101-102: store the chunk if the sequence is not in chunks
MC_Store(buf, seq, data) ==
    IF seq \in DOMAIN buf THEN buf
    ELSE [s \in DOMAIN buf \cup {seq} |-> IF s = seq THEN data ELSE buf[s]]

\* client.py 84-116: receive the chunk message, verify, store, answer; a
\* recv(chunk_len) may return only the first part of the message
MC_RecvChunk ==
    /\ Mayhem /\ cpc = "wait_json" /\ CanRecvC
    /\ \E partial \in BOOLEAN :
        /\ partial => (s2c # <<>> /\ HeadC.type = "chunk")
        /\ LET m == HeadC IN
           IF partial \/ m.type # "chunk"
           THEN \* json.JSONDecodeError
                /\ s2c' = IF partial THEN <<Msg("rest")>> \o TailC ELSE TailC
                /\ c2s' = Append(c2s, Msg("RETRANSMIT_LAST"))
                /\ cpc' = "loop"
                /\ clog' = Append(clog, Ev("retransmit_last", 0, "json"))
                /\ UNCHANGED received
           ELSE IF ~MC_Verify(m)
           THEN /\ s2c' = TailC
                /\ c2s' = Append(c2s, [type |-> "RETRANSMIT", seq |-> m.sequence])
                /\ cpc' = "loop"
                /\ clog' = Append(clog, Ev("retransmit", m.sequence, m))
                /\ UNCHANGED received
           ELSE /\ s2c' = TailC
                /\ received' = MC_Store(received, m.sequence, fromhex(m.data))
                /\ c2s' = Append(c2s, Msg("OK"))
                /\ cpc' = IF Cardinality(DOMAIN received') = num_chunks
                          THEN "final" ELSE "loop"
                /\ clog' = Append(clog, Ev("ok", m.sequence, m))
    /\ UNCHANGED <<config, spc, serverVars, server_checksum, num_chunks, iter,
                   result, output, retry_count, slog>>

\* client.py 124-154: the final message, reassembly and the verdict
MC_Final ==
    /\ Mayhem /\ cpc = "final" /\ CanRecvC
    /\ s2c' = TailC
    /\ cpc' = "closed"
    /\ IF HeadC.type = "TRANSFER_COMPLETE"
       THEN LET reassembled_data == Reassemble(received, num_chunks) IN
            /\ clog' = Append(clog, Ev("reassemble", Cardinality(DOMAIN received),
                                       reassembled_data))
            /\ IF calculate_checksum(reassembled_data) = server_checksum.value
               THEN /\ output' = reassembled_data
                    /\ result' = "SUCCESS"
                    /\ c2s' = Append(c2s, Msg("SUCCESS"))
               ELSE /\ output' = output
                    /\ result' = "CHECKSUM_MISMATCH"
                    /\ c2s' = Append(c2s, Msg("CHECKSUM_MISMATCH"))
       ELSE /\ result' = "ERROR"
            /\ c2s' = Append(c2s, Msg("ERROR"))
            /\ UNCHANGED <<output, clog>>
    /\ UNCHANGED <<config, spc, serverVars, server_checksum, num_chunks, iter,
                   received, retry_count, slog>>

\* client.py 156-159: a socket call raises once the server has closed
MC_SocketError ==
    /\ Mayhem /\ spc = "closed" /\ cpc \notin {"connect", "closed"}
    /\ cpc' = "closed"
    /\ clog' = Append(clog, Ev("abort", 0, "exception"))
    /\ UNCHANGED <<config, spc, s2c, c2s, serverVars, clientVars, slog>>

\* ------------------------------------------------------------ mayhem server

\* server.py 32-40: receive the file size, acknowledge
MS_RecvSize ==
    /\ Mayhem /\ spc = "accept" /\ CanRecvS
    /\ c2s' = TailS
    /\ IF HeadS.type = "size"
       THEN /\ file_size' = HeadS.n
            /\ s2c' = Append(s2c, Msg("OK"))
            /\ spc' = "recv_file"
       ELSE \* not file_size_data: return
            /\ spc' = "closed"
            /\ UNCHANGED <<file_size, s2c>>
    /\ UNCHANGED <<config, cpc, file_data, chunks, i, json_data, clientVars, slog, clog>>

\* server.py 43-63: receive file_size bytes (or stop at end of stream)
MS_RecvFile ==
    /\ Mayhem /\ spc = "recv_file"
    /\ IF file_size = 0
       THEN /\ file_data' = <<>>
            /\ c2s' = c2s
       ELSE /\ CanRecvS
            /\ c2s' = TailS
            /\ file_data' = IF HeadS.type = "file" THEN HeadS.data ELSE <<>>
    /\ spc' = "send_checksum"
    /\ UNCHANGED <<config, cpc, s2c, file_size, chunks, i, json_data, clientVars, slog, clog>>

\* server.py 66: send the checksum
MS_SendChecksum ==
    /\ Mayhem /\ spc = "send_checksum"
    /\ s2c' = Append(s2c, [type |-> "checksum", value |-> calculate_checksum(file_data)])
    /\ spc' = "send_count"
    /\ UNCHANGED <<config, cpc, c2s, serverVars, clientVars, slog, clog>>

\* server.py 69-74: split the file, send the number of chunks
MS_SendCount ==
    /\ Mayhem /\ spc = "send_count"
    /\ chunks' = SplitChunks(file_data)
    /\ s2c' = Append(s2c, [type |-> "count", n |-> Len(chunks')])
    /\ spc' = "wait_ready"
    /\ slog' = Append(slog, Ev("metadata", 0, Len(chunks')))
    /\ UNCHANGED <<config, cpc, c2s, file_size, file_data, i, json_data, clientVars, clog>>

\* server.py 77: wait for the acknowledgment
MS_WaitReady ==
    /\ Mayhem /\ spc = "wait_ready" /\ CanRecvS
    /\ c2s' = TailS
    /\ i' = 0
    /\ spc' = "for"
    /\ slog' = Append(slog, Ev("ready", 0, HeadS.type))
    /\ UNCHANGED <<config, cpc, s2c, file_size, file_data, chunks, json_data, clientVars, clog>>

\* an injector that cannot be switched off
Faults_AlwaysOn == {"pass", "drop", "corrupt"}

\* the outcomes of random.random() < ERROR_RATE and random.choice
Faults == IF errorsOn THEN {"pass", "drop", "corrupt"} ELSE {"pass"}

\* an injector that takes the entry it drops or corrupts out of the list
AfterFault_Removed(list, k, fault) ==
    IF fault = "pass" THEN list
    ELSE [j \in 1..(Len(list) - 1) |-> IF j < k THEN list[j] ELSE list[j + 1]]

\* the sender's chunk list after the injector has handled its k-th entry:
\* mayhem server.py 97-106 skips the send or rewrites the chunk_checksum of the
\* message dictionary, first_task server.py 224-235 skips the send or flips
\* bits in a bytearray copy; neither assigns to the list
AfterFault(list, k, fault) == list

\* server.py 80-109: the next chunk of the for loop through the fault injector
MS_NextChunk ==
    /\ Mayhem /\ spc = "for" /\ i < Len(chunks)
    /\ \E fault \in Faults :
        /\ slog' = Append(slog, Ev(fault, i, chunks[i + 1]))
        /\ chunks' = AfterFault(chunks, i + 1, fault)
        /\ IF fault = "drop"
           THEN /\ i' = i + 1
                /\ UNCHANGED <<spc, s2c, json_data>>
           ELSE /\ json_data' = ChunkJson(i, chunks[i + 1],
                                    IF fault = "corrupt" THEN corrupted_checksum
                                    ELSE md5(chunks[i + 1]))
                /\ s2c' = Append(s2c, [type |-> "len", n |-> Len(json_data'.data)])
                /\ spc' = "wait_len_ack"
                /\ i' = i
    /\ UNCHANGED <<config, cpc, c2s, file_size, file_data, clientVars, clog>>

\* server.py 112-115 and 140-143: wait for the acknowledgment, send the chunk
MS_SendChunk ==
    /\ Mayhem /\ spc = "wait_len_ack" /\ CanRecvS
    /\ c2s' = TailS
    /\ s2c' = Append(s2c, json_data)
    /\ spc' = "wait_ack"
    /\ slog' = Append(slog, Ev("chunk", json_data.sequence, json_data))
    /\ UNCHANGED <<config, cpc, serverVars, clientVars, clog>>

\* Retransmission sending the first chunk of the list whatever is asked for
Retransmission_First(list, seq_num) ==
    ChunkJson(0, list[1], md5(list[1]))

\* server.py 126-134: the chunk message of a retransmission, no fault injected
Retransmission(list, seq_num) ==
    ChunkJson(seq_num, list[seq_num + 1], md5(list[seq_num + 1]))

\* server.py 118-146: the reply to a chunk; RETRANSMIT:<n> resends chunk n
MS_RecvAck ==
    /\ Mayhem /\ spc = "wait_ack" /\ CanRecvS
    /\ c2s' = TailS
    /\ LET ack == HeadS IN
       IF ack.type = "RETRANSMIT"
       THEN IF ack.seq \in 0..(Len(chunks) - 1)
            THEN /\ json_data' = Retransmission(chunks, ack.seq)
                 /\ s2c' = Append(s2c, [type |-> "len", n |-> Len(json_data'.data)])
                 /\ spc' = "wait_len_ack"
                 /\ slog' = Append(slog, Ev("RETRANSMIT", ack.seq, "ack"))
                 /\ i' = i
            ELSE \* IndexError
                 /\ spc' = "closed"
                 /\ slog' = Append(slog, Ev("abort", 0, "exception"))
                 /\ UNCHANGED <<json_data, s2c, i>>
       ELSE IF ack.type = "RETRANSMIT_LAST"
       THEN \* int("LAST") raises ValueError
            /\ spc' = "closed"
            /\ slog' = Append(slog, Ev("abort", 0, "exception"))
            /\ UNCHANGED <<json_data, s2c, i>>
       ELSE /\ i' = i + 1
            /\ spc' = "for"
            /\ slog' = Append(slog, Ev("ack", json_data.sequence, ack.type))
            /\ UNCHANGED <<json_data, s2c>>
    /\ UNCHANGED <<config, cpc, file_size, file_data, chunks, clientVars, clog>>

\* server.py 149: after the for loop, the final confirmation
MS_SendComplete ==
    /\ Mayhem /\ spc = "for" /\ i >= Len(chunks)
    /\ s2c' = Append(s2c, Msg("TRANSFER_COMPLETE"))
    /\ spc' = "wait_result"
    /\ slog' = Append(slog, Ev("end", 0, "TRANSFER_COMPLETE"))
    /\ UNCHANGED <<config, cpc, c2s, serverVars, clientVars, clog>>

\* server.py 152-167: receive the result, close
MS_RecvResult ==
    /\ Mayhem /\ spc = "wait_result" /\ CanRecvS
    /\ c2s' = TailS
    /\ spc' = "closed"
    /\ slog' = Append(slog, Ev("result", 0, HeadS.type))
    /\ UNCHANGED <<config, cpc, s2c, serverVars, clientVars, clog>>

\* server.py 155-166: a socket call raises once the client has closed
MS_SocketError ==
    /\ Mayhem /\ cpc = "closed" /\ c2s = <<>> /\ spc \notin {"accept", "closed"}
    /\ spc' = "closed"
    /\ slog' = Append(slog, Ev("abort", 0, "exception"))
    /\ UNCHANGED <<config, cpc, s2c, c2s, serverVars, clientVars, clog>>

\* ------------------------------------------------------------ first_task

\* str.encode('latin1') / bytes.decode('latin1'): byte b <-> code point b
latin1_decode(data) == [k \in 1..Len(data) |-> data[k]]
latin1_encode(str) == [k \in 1..Len(str) |-> str[k] % 256]

\* server.py 92-101: chunk = f.read(chunk_size) until the read is empty, each
\* chunk appended with the running sequence_number
RECURSIVE read_loop(_, _, _)
read_loop(data, n, sequence_number) ==
    IF data = <<>> THEN <<>>
    ELSE <<[seq |-> sequence_number, data |-> SubSeq(data, 1, Min(n, Len(data)))]>>
         \o read_loop(SubSeq(data, Min(n, Len(data)) + 1, Len(data)), n,
                      sequence_number + 1)

\* split_file with the sequence numbers counted from one
split_file_FromOne(data) == read_loop(data, chunk_size, 1)

\* server.py 82-103 split_file: (sequence_number, chunk) in file order
split_file(data) == read_loop(data, chunk_size, 0)

\* random.shuffle(chunks): every order of the list
Shuffles(list) ==
    {[k \in 1..Len(list) |-> list[p[k]]] : p \in Permutations(1..Len(list))}

\* server.py 232: at most this many bit flips for one chunk
MaxFlips == 10

\* corrupted_data[pos] ^= random.randint(1, 255), on one-bit bytes
XorMasks == {1}
XorByte(b, m) == (b + m) % 2

\* server.py 230-235: min(10, len) flips, each at a random position
RECURSIVE Flips(_, _)
Flips(data, k) ==
    IF k = 0 THEN {data}
    ELSE UNION {Flips([data EXCEPT ![pos] = XorByte(data[pos], m)], k - 1) :
                    pos \in 1..Len(data), m \in XorMasks}

Corruptions(data) == Flips(data, Min(MaxFlips, Len(data)))

\* sorted(self.received_chunks.keys()), then the payloads written in turn
RECURSIVE ConcatSorted(_, _)
ConcatSorted(buf, keys) ==
    IF keys = {} THEN <<>>
    ELSE LET m == CHOOSE k \in keys : \A j \in keys : k <= j
         IN buf[m] \o ConcatSorted(buf, keys \ {m})

\* save_file writing the payloads in descending sequence order
RECURSIVE ConcatDescending(_, _)
ConcatDescending(buf, keys) ==
    IF keys = {} THEN <<>>
    ELSE LET m == CHOOSE k \in keys : \A j \in keys : k >= j
         IN buf[m] \o ConcatDescending(buf, keys \ {m})

save_file_Descending(buf) == ConcatDescending(buf, DOMAIN buf)

\* client.py 253-265 save_file: the payloads in ascending sequence order
save_file(buf) == ConcatSorted(buf, DOMAIN buf)

\* client.py 152-171 upload_file: read the file, send the upload request
FC_SendUpload ==
    /\ FirstTask /\ cpc = "upload"
    /\ c2s' = Append(c2s, [type |-> "request", command |-> "upload",
                           file_data |-> latin1_decode(file)])
    /\ cpc' = "wait_ready"
    /\ slog' = <<>>
    /\ clog' = <<>>
    /\ UNCHANGED <<config, spc, s2c, serverVars, clientVars>>

\* client.py 174-191: the server's first response
FC_RecvReady ==
    /\ FirstTask /\ cpc = "wait_ready" /\ s2c # <<>>
    /\ s2c' = Tail(s2c)
    /\ LET response == Head(s2c) IN
       IF response.type # "ready"
       THEN /\ result' = "False"
            /\ cpc' = "returned"
            /\ UNCHANGED <<server_checksum, num_chunks, received>>
       ELSE /\ server_checksum' = response.checksum
            /\ num_chunks' = response.total_chunks
            /\ received' = EmptyBuf
            /\ cpc' = "recv_chunks"
            /\ result' = result
    /\ UNCHANGED <<config, spc, c2s, serverVars, iter, output, retry_count, slog, clog>>

\* FC_Complete with the comparison left out: any buffer is taken as complete
FC_Complete_Unchecked(buf, total) == TRUE

\* client.py 208: len(self.received_chunks) != total_chunks is false
FC_Complete(buf, total) == Cardinality(DOMAIN buf) = total

\* FC_Verified with the comparison left out
FC_Verified_Unchecked(saved, declared) == TRUE

\* client.py 227-231: reassembled_checksum == server_checksum
FC_Verified(saved, declared) == calculate_checksum(saved) = declared

\* client.py 194-205: one chunk frame of the receive loop
FC_RecvChunk ==
    /\ FirstTask /\ cpc = "recv_chunks" /\ s2c # <<>> /\ Head(s2c).type = "chunk"
    /\ s2c' = Tail(s2c)
    /\ LET m == Head(s2c)
           seq_num == m.sequence
           chunk_data == fromhex(m.data)
       IN /\ received' = [s \in DOMAIN received \cup {seq_num} |->
                             IF s = seq_num THEN chunk_data ELSE received[s]]
          /\ clog' = Append(clog, Ev("store", seq_num, chunk_data))
    /\ UNCHANGED <<config, cpc, spc, c2s, serverVars, server_checksum, num_chunks, iter,
                   result, output, retry_count, slog>>

\* a retry is started whatever the count
RetryAllowed_Always(count, limit) == TRUE

\* client.py 214 and 237: self.retry_count < self.max_retries
RetryAllowed(count, limit) == count < limit

\* client.py 197-199 and 207-244: the end frame, then completeness check,
\* save_file, whole-file checksum, retry by recursion or return
FC_RecvEnd ==
    /\ FirstTask /\ cpc = "recv_chunks" /\ s2c # <<>> /\ Head(s2c).type = "end"
    /\ s2c' = Tail(s2c)
    /\ LET complete == FC_Complete(received, num_chunks)
           saved == save_file(received)
           verified == complete /\ FC_Verified(saved, server_checksum)
           retry == ~verified /\ RetryAllowed(retry_count, max_retries)
       IN /\ output' = IF complete THEN saved ELSE output
          /\ clog' = Append(clog, Ev(IF complete THEN "save" ELSE "missing",
                                     Cardinality(DOMAIN received), received))
          /\ retry_count' = IF retry THEN retry_count + 1 ELSE retry_count
          /\ cpc' = IF retry THEN "upload" ELSE "returned"
          /\ result' = IF verified THEN "True" ELSE IF retry THEN result ELSE "False"
    /\ UNCHANGED <<config, spc, c2s, serverVars, server_checksum, num_chunks, iter,
                   received, slog>>

\* client.py 51-61 disconnect, called by the caller of upload_file
FC_Disconnect ==
    /\ FirstTask /\ cpc = "returned"
    /\ c2s' = Append(c2s, [type |-> "request", command |-> "disconnect", file_data |-> <<>>])
    /\ cpc' = "closed"
    /\ UNCHANGED <<config, spc, s2c, serverVars, clientVars, slog, clog>>

\* server.py 150-173 handle_client and 183-218 handle_upload up to the shuffle
FS_HandleRequest ==
    /\ FirstTask /\ spc = "handle_client" /\ CanRecvS
    /\ c2s' = TailS
    /\ LET request == HeadS IN
       IF request.type = "eof" \/ request.command = "disconnect"
       THEN /\ spc' = "closed"
            /\ UNCHANGED <<s2c, file_data, chunks, i, slog>>
       ELSE IF request.file_data = <<>>
       THEN \* not file_data: error response, back to the request loop
            /\ s2c' = Append(s2c, [type |-> "error", message |-> "missing"])
            /\ slog' = Append(slog, Ev("error", 0, "missing"))
            /\ UNCHANGED <<spc, file_data, chunks, i>>
       ELSE /\ file_data' = latin1_encode(request.file_data)
            /\ chunks' \in Shuffles(split_file(file_data'))
            /\ s2c' = Append(s2c, [type |-> "ready",
                                   checksum |-> calculate_checksum(file_data'),
                                   total_chunks |-> Len(chunks')])
            /\ i' = 0
            /\ spc' = "for"
            /\ slog' = Append(slog, Ev("metadata", 0, Len(chunks')))
    /\ UNCHANGED <<config, cpc, file_size, json_data, clientVars, clog>>

\* server.py 220-246: the next chunk of the shuffled list through the fault
\* injector; the chunk message carries no digest
FS_NextChunk ==
    /\ FirstTask /\ spc = "for" /\ i < Len(chunks)
    /\ i' = i + 1
    /\ LET seq_num == chunks[i + 1].seq
           chunk_data == chunks[i + 1].data
       IN \E fault \in Faults :
            /\ chunks' = AfterFault(chunks, i + 1, fault)
            /\ IF fault = "drop"
               THEN /\ s2c' = s2c
                    /\ slog' = Append(slog, Ev("drop", seq_num, chunk_data))
               ELSE \E sent \in (IF fault = "corrupt" THEN Corruptions(chunk_data)
                                 ELSE {chunk_data}) :
                    /\ s2c' = Append(s2c, [type |-> "chunk", sequence |-> seq_num,
                                           data |-> hex(sent)])
                    /\ slog' = Append(slog, Ev(fault, seq_num, sent))
    /\ UNCHANGED <<config, cpc, spc, c2s, file_size, file_data, json_data,
                   clientVars, clog>>

\* server.py 249-256: the end of transmission message
FS_SendEnd ==
    /\ FirstTask /\ spc = "for" /\ i >= Len(chunks)
    /\ s2c' = Append(s2c, [type |-> "end", message |-> "complete"])
    /\ spc' = "handle_client"
    /\ slog' = Append(slog, Ev("end", 0, "end"))
    /\ UNCHANGED <<config, cpc, c2s, serverVars, clientVars, clog>>

FirstTaskNext ==
    \/ FC_SendUpload \/ FC_RecvReady \/ FC_RecvChunk \/ FC_RecvEnd \/ FC_Disconnect
    \/ FS_HandleRequest \/ FS_NextChunk \/ FS_SendEnd

MayhemNext ==
    \/ MC_SendSize \/ MC_SendFile \/ MC_RecvChecksum \/ MC_RecvCount
    \/ MC_LoopExhausted \/ MC_RecvLen \/ MC_RecvChunk \/ MC_Final \/ MC_SocketError
    \/ MS_RecvSize \/ MS_RecvFile \/ MS_SendChecksum \/ MS_SendCount \/ MS_WaitReady
    \/ MS_NextChunk \/ MS_SendChunk \/ MS_RecvAck \/ MS_SendComplete \/ MS_RecvResult
    \/ MS_SocketError

Next == MayhemNext \/ FirstTaskNext

Spec == Init /\ [][Next]_vars

\* ------------------------------------------------------------ properties

\* the chunk of sequence number s as the sender split it from the upload
Original(s) == SplitChunks(file)[s + 1]
AllSeqs == 0..(NumChunks(file) - 1)
Stored == DOMAIN received

InLog(log, e) == \E k \in 1..Len(log) : log[k].ev = e

\* a peer left the session by an error path: the stream was cut or misread
Aborted ==
    \/ InLog(clog, "abort") \/ InLog(clog, "error") \/ InLog(clog, "retransmit_last")
    \/ InLog(slog, "abort") \/ InLog(slog, "error")

\* the fault injector has dropped or corrupted nothing
NoFault == ~InLog(slog, "drop") /\ ~InLog(slog, "corrupt")

\* C1: in the mayhem variant a session that can take no further step, and
\* in which no peer left by an error path, has ended with the client holding
\* every chunk, the received file equal to the upload and SUCCESS sent.
C1_RetransmissionConverges ==
    (Mayhem /\ ~Aborted /\ ~ENABLED Next) =>
        (result = "SUCCESS" /\ output = file /\ Stored = AllSeqs)

\* C2: a session reports success (mayhem: SUCCESS sent; first_task:
\* upload_file returns True) only if the reassembled bytes are the uploaded
\* bytes.
C2_SuccessOnlyIfIdentical ==
    /\ (Mayhem /\ result = "SUCCESS") => output = file
    /\ (FirstTask /\ result = "True") => output = file

C2_Witness ==
    /\ FirstTask /\ result = "True" /\ retry_count > 0 /\ output = file
    /\ InLog(slog, "corrupt") /\ Len(file) > CHUNK_SIZE

C4_NoMutualWait ==
    Mayhem => ((cpc = "closed" /\ spc = "closed") \/ ENABLED Next)

\* C5: in the mayhem variant, once the server has sent TRANSFER_COMPLETE and
\* the client has read it, every chunk the fault injector dropped has been
\* asked for with RETRANSMIT and is stored in the client's buffer.
C5_DroppedIsRecovered ==
    (Mayhem /\ InLog(clog, "end_in_loop")) =>
        \A k \in 1..Len(slog) : slog[k].ev = "drop" =>
            /\ slog[k].seq \in Stored
            /\ \E j \in 1..Len(clog) :
                   clog[j].ev = "retransmit" /\ clog[j].seq = slog[k].seq

\* the chunk message of sequence number s as the sender builds it unharmed
Clean(s) == ChunkJson(s, Original(s), md5(Original(s)))

\* C6: in the mayhem variant every chunk message the client has read whose
\* declared digest does not match its payload was answered RETRANSMIT:<its
\* sequence number> and not stored, every other one was answered OK, and
\* each payload in the client's buffer is the sender's original chunk.
C6_MismatchIsRejected ==
    Mayhem =>
        /\ \A k \in 1..Len(clog) : clog[k].ev \in {"ok", "retransmit"} =>
              /\ clog[k].seq = clog[k].x.sequence
              /\ (clog[k].ev = "retransmit") <=>
                     (md5(fromhex(clog[k].x.data)) # clog[k].x.chunk_checksum)
        /\ \A s \in Stored : s \in AllSeqs /\ received[s] = Original(s)
        /\ \A s \in Stored : \E k \in 1..Len(clog) :
              clog[k].ev = "ok" /\ clog[k].seq = s /\ clog[k].x = Clean(s)

C6_Witness ==
    /\ Mayhem /\ Stored = AllSeqs /\ Len(file) > CHUNK_SIZE
    /\ \E k \in 1..Len(clog) :
          /\ clog[k].ev = "retransmit"
          /\ clog[k].x.chunk_checksum = corrupted_checksum
          /\ clog[k].seq \in Stored

\* C7: in the first_task variant every payload stored in received_chunks is
\* the sender's original chunk of that sequence number: a chunk changed by
\* the fault injector is never stored.
C7_OnlyVerifiedStored ==
    FirstTask => \A s \in Stored : received[s] = Original(s)

\* C8: in the mayhem variant, after the server has read RETRANSMIT:<s> the
\* next chunk message it sends is the unharmed chunk s, and it sends no
\* chunk of a later sequence number before it has read OK for s.
C8_RetransmitIsNextAndClean ==
    Mayhem =>
        \A k \in 1..Len(slog) : slog[k].ev = "RETRANSMIT" =>
            \A j \in (k + 1)..Len(slog) : slog[j].ev = "chunk" =>
                /\ (\A m \in (k + 1)..(j - 1) : slog[m].ev # "chunk") =>
                       slog[j].x = Clean(slog[k].seq)
                /\ slog[j].seq > slog[k].seq =>
                       \E m \in (k + 1)..(j - 1) :
                           /\ slog[m].ev = "ack" /\ slog[m].seq = slog[k].seq
                           /\ slog[m].x = "OK"

C8_Witness ==
    /\ Mayhem
    /\ \E k \in 1..Len(slog) : \E j \in (k + 1)..Len(slog) :
          /\ slog[k].ev = "RETRANSMIT"
          /\ slog[k + 1].ev = "chunk" /\ slog[k + 1].x = Clean(slog[k].seq)
          /\ slog[j].ev = "chunk" /\ slog[j].seq > slog[k].seq

\* the end-of-transmission marker is the next thing the receiver will read
EndAtReceiver ==
    /\ s2c # <<>>
    /\ Head(s2c).type = (IF Mayhem THEN "TRANSFER_COMPLETE" ELSE "end")

\* C9: in both variants, when the end-of-transmission marker is what the
\* receiver reads next, every sequence number 0..total_chunks-1 is in the
\* receiver's buffer.
C9_EndOnlyAfterAllReceived ==
    (EndAtReceiver /\ ~Aborted) => Stored = AllSeqs

\* the receiver has read the end marker with sequence numbers missing
EndWhileMissing ==
    \E k \in 1..Len(clog) :
        clog[k].ev \in {"end_in_loop", "missing"} /\ clog[k].seq < num_chunks

PeerCounts == {1, 2}
PeerPayloads == {<<0>>, <<1>>}

\* what a peer can write on the connection: a chunk length, a chunk message
\* with any sequence number, payload and digest, or the end marker
PeerMessages(n) ==
    {[type |-> "len", n |-> 2], Msg("TRANSFER_COMPLETE")}
    \cup UNION {{ChunkJson(s, d, md5(d)), ChunkJson(s, d, corrupted_checksum)} :
                    s \in 0..(n - 1), d \in PeerPayloads}

\* client.py 62-69: the client enters the receive loop with the declared
\* digest and chunk count and an empty buffer
ReceiverInit ==
    /\ variant = "mayhem"
    /\ file \in {f \in Files : Len(f) \in PeerCounts}
    /\ errorsOn = FALSE
    /\ max_retries = 0
    /\ chunk_size = CHUNK_SIZE
    /\ NoFraming
    /\ NoSessions
    /\ retry_count = 0
    /\ cpc = "loop"
    /\ spc = "peer"
    /\ s2c = <<>>
    /\ c2s = <<>>
    /\ file_size = 0
    /\ file_data = <<>>
    /\ chunks = <<>>
    /\ i = 0
    /\ json_data = Msg("none")
    /\ server_checksum = [type |-> "checksum", value |-> calculate_checksum(file)]
    /\ num_chunks = Len(file)
    /\ iter = 0
    /\ received = EmptyBuf
    /\ result = "none"
    /\ output = "none"
    /\ slog = <<>>
    /\ clog = <<>>

\* the peer reads what the client answered and writes its next message
R_PeerSend ==
    /\ Mayhem /\ spc = "peer" /\ s2c = <<>> /\ cpc \in {"loop", "wait_json", "final"}
    /\ \E m \in PeerMessages(num_chunks) : s2c' = <<m>>
    /\ c2s' = <<>>
    /\ UNCHANGED <<config, cpc, spc, serverVars, clientVars, slog, clog>>

ReceiverNext ==
    \/ R_PeerSend \/ MC_LoopExhausted \/ MC_RecvLen \/ MC_RecvChunk \/ MC_Final

ReceiverSpec == ReceiverInit /\ [][ReceiverNext]_vars

\* the client is about to read a whole chunk message whose digest verifies
VerifiedAtHead ==
    /\ Mayhem /\ cpc = "wait_json" /\ s2c # <<>>
    /\ Head(s2c).type = "chunk" /\ MC_Verify(Head(s2c))

\* C11: in the mayhem client no step changes or removes a stored chunk, and
\* the step that reads a whole verified chunk message whose sequence number
\* is already stored leaves the buffer and the output as they were and
\* answers OK.
C11_StoredNeverOverwritten ==
    [][/\ \A s \in DOMAIN received :
            s \in DOMAIN received' /\ received'[s] = received[s]
       /\ (VerifiedAtHead /\ Head(s2c).sequence \in DOMAIN received
              /\ s2c' = Tail(s2c))
          => /\ received' = received
             /\ output' = output
             /\ c2s' = Append(c2s, Msg("OK"))]_vars

\* a verified chunk was stored, and a later verified chunk with the same
\* sequence number and another payload was answered OK
C11_Witness ==
    \E j, k \in 1..Len(clog) :
        /\ j < k
        /\ clog[j].ev = "ok" /\ clog[k].ev = "ok"
        /\ clog[j].seq = clog[k].seq
        /\ clog[j].x.data # clog[k].x.data
        /\ received[clog[j].seq] = fromhex(clog[j].x.data)

\* ------------------------------------------------------------ splitting and
\* reassembly on their own

MaxChunkSize == 3

\* every byte buffer of at most MaxFileLen bytes
AllFiles == UNION {[1..n -> Byte] : n \in 0..MaxFileLen}

PureInit ==
    /\ variant \in {"mayhem", "first_task"}
    /\ file \in AllFiles
    /\ chunk_size \in 1..MaxChunkSize
    /\ NoFraming
    /\ NoSessions
    /\ errorsOn = FALSE
    /\ max_retries = 0
    /\ retry_count = 0
    /\ cpc = "recv"
    /\ spc = "split"
    /\ s2c = <<>>
    /\ c2s = <<>>
    /\ file_size = 0
    /\ file_data = <<>>
    /\ chunks = <<>>
    /\ i = 0
    /\ json_data = Msg("none")
    /\ server_checksum = Msg("none")
    /\ num_chunks = 0
    /\ iter = 0
    /\ received = EmptyBuf
    /\ result = "none"
    /\ output = "none"
    /\ slog = <<>>
    /\ clog = <<>>

\* mayhem server.py 69-71 with enumerate of line 80, first_task server.py
\* 82-103: the sender splits the buffer into numbered chunks
P_Split ==
    /\ spc = "split"
    /\ file_data' = file
    /\ chunks' = IF Mayhem
                 THEN [k \in 1..Len(Slices(file, chunk_size)) |->
                          [seq |-> k - 1, data |-> Slices(file, chunk_size)[k]]]
                 ELSE split_file(file)
    /\ num_chunks' = Len(chunks')
    /\ spc' = "split_done"
    /\ UNCHANGED <<config, cpc, s2c, c2s, file_size, i, json_data, server_checksum,
                   iter, received, result, output, retry_count, slog, clog>>

\* mayhem client.py 101-102, first_task client.py 200-204: a chunk that has
\* not arrived yet arrives and is stored, in any order
P_Deliver ==
    /\ spc = "split_done" /\ cpc = "recv"
    /\ \E k \in 1..Len(chunks) :
        /\ chunks[k].seq \notin DOMAIN received
        /\ received' = IF Mayhem
                       THEN MC_Store(received, chunks[k].seq, chunks[k].data)
                       ELSE [s \in DOMAIN received \cup {chunks[k].seq} |->
                                IF s = chunks[k].seq THEN chunks[k].data
                                ELSE received[s]]
        /\ clog' = Append(clog, Ev("store", chunks[k].seq, chunks[k].data))
    /\ UNCHANGED <<config, cpc, spc, s2c, c2s, serverVars, server_checksum, num_chunks,
                   iter, result, output, retry_count, slog>>

\* mayhem client.py 126-130, first_task client.py 253-267: the complete
\* buffer is put together
P_Assemble ==
    /\ spc = "split_done" /\ cpc = "recv"
    /\ Cardinality(DOMAIN received) = num_chunks
    /\ output' = IF Mayhem THEN Reassemble(received, num_chunks) ELSE save_file(received)
    /\ cpc' = "assembled"
    /\ UNCHANGED <<config, spc, s2c, c2s, serverVars, server_checksum, num_chunks,
                   iter, received, result, retry_count, slog, clog>>

PureNext == P_Split \/ P_Deliver \/ P_Assemble

PureSpec == PureInit /\ [][PureNext]_vars

\* C12: for every byte buffer, the empty one and those whose length is no
\* multiple of the chunk size included, and every chunk size of at least one,
\* putting the chunks of the split together in ascending sequence order
\* gives the buffer back, in both variants.
C12_AssembleSplitIsIdentity ==
    cpc = "assembled" => output = file

\* a buffer of several chunks whose last chunk is shorter was put together
C12_Witness ==
    /\ cpc = "assembled" /\ output = file
    /\ Len(chunks) >= 2 /\ Len(file) % chunk_size # 0

\* the least c with c * n >= len
Ceil(len, n) == CHOOSE c \in 0..len : c * n >= len /\ \A d \in 0..len : d * n >= len => c <= d

\* C13: the split of a buffer of L bytes with chunk size n has ceil(L / n)
\* chunks numbered 0 .. ceil(L / n) - 1 in order, all but the last of n bytes,
\* the last of 1 .. n bytes; no chunk for L = 0 and one chunk for L = n.
C13_SplitShape ==
    spc = "split_done" =>
        LET L == Len(file)
            n == chunk_size
            c == Len(chunks)
        IN /\ c = Ceil(L, n)
           /\ \A k \in 1..c : chunks[k].seq = k - 1
           /\ \A k \in 1..(c - 1) : Len(chunks[k].data) = n
           /\ c > 0 => Len(chunks[c].data) \in 1..n
           /\ L = 0 => c = 0
           /\ L = n => c = 1

\* a buffer was split into full chunks and a shorter last one
C13_Witness ==
    /\ spc = "split_done" /\ Len(chunks) >= 2
    /\ Len(chunks[Len(chunks)].data) < chunk_size

\* the payloads of a list of chunks or of events, one after the other
RECURSIVE Flatten(_)
Flatten(list) ==
    IF list = <<>> THEN <<>>
    ELSE (IF "data" \in DOMAIN Head(list) THEN Head(list).data ELSE Head(list).x)
         \o Flatten(Tail(list))

\* C15: whatever the order in which the complete set of chunks arrived, the
\* output is the payloads in ascending sequence order, in both variants.
C15_OrderIndependent ==
    cpc = "assembled" => output = Flatten(chunks)

\* the chunks arrived in an order whose concatenation is not the output
C15_Witness ==
    /\ cpc = "assembled" /\ output = Flatten(chunks)
    /\ Len(clog) = Len(chunks)
    /\ Flatten(clog) # output

\* ------------------------------------------------------------ sessions

PrefixLen == 4
Radix == 4
MaxFrames == 2

\* the bytes of the wire: 0 any other character, 1 a digit, 2 '{', 3 '}'
Digit == 1
Open == 2
Close == 3

\* json.dumps of the dictionaries the peers send: objects of 2 to 5 bytes
Payloads == {<<Open, Close>>, <<Open, 0, Close>>, <<Open, Digit, 0, Close>>,
             <<Open, 0, Digit, 0, Close>>}

\* n.to_bytes(4, byteorder='big')
to_bytes(n) == [k \in 1..PrefixLen |-> (n \div (Radix ^ (PrefixLen - k))) % Radix]

\* int.from_bytes(b, byteorder='big'), of any number of bytes, 0 of none
RECURSIVE from_bytes(_)
from_bytes(b) ==
    IF b = <<>> THEN 0
    ELSE Radix * from_bytes(SubSeq(b, 1, Len(b) - 1)) + b[Len(b)]

\* json.loads returns a value: the text is an object or a number
json_loads_ok(text) ==
    \/ /\ Len(text) >= 2 /\ text[1] = Open /\ text[Len(text)] = Close
       /\ \A k \in 2..(Len(text) - 1) : text[k] \in {0, Digit}
    \/ /\ Len(text) >= 1
       /\ \A k \in 1..Len(text) : text[k] = Digit

\* server.py 113-115 / client.py 70-72: the two sendall calls of one message
Frame(payload) == to_bytes(Len(payload)) \o payload

FrameInit ==
    /\ variant = "first_task"
    /\ file = <<>>
    /\ errorsOn = FALSE
    /\ max_retries = 0
    /\ chunk_size = CHUNK_SIZE
    /\ NoSessions
    /\ reader \in {"client", "server"}
    /\ stream = <<>>
    /\ msg_len = 0
    /\ bytes_received = <<>>
    /\ retry_count = 0
    /\ cpc = "recv_prefix"
    /\ spc = "open"
    /\ s2c = <<>>
    /\ c2s = <<>>
    /\ file_size = 0
    /\ file_data = <<>>
    /\ chunks = <<>>
    /\ i = 0
    /\ json_data = Msg("none")
    /\ server_checksum = Msg("none")
    /\ num_chunks = 0
    /\ iter = 0
    /\ received = EmptyBuf
    /\ result = "none"
    /\ output = "none"
    /\ slog = <<>>
    /\ clog = <<>>

frameRest == <<variant, file, errorsOn, max_retries, chunk_size, reader, multiVars, s2c, c2s,
               serverVars, server_checksum, num_chunks, iter, received, output,
               retry_count>>

\* send_response / send_request: the peer writes one whole message
W_Send ==
    /\ spc = "open" /\ Len(slog) < MaxFrames
    /\ \E payload \in Payloads :
        /\ stream' = stream \o Frame(payload)
        /\ slog' = Append(slog, Ev("send", Len(payload), payload))
    /\ UNCHANGED <<frameRest, cpc, spc, msg_len, bytes_received, result, clog>>

\* the peer's end of the connection closes, between two messages (k = 0) or
\* after the first k bytes of a message
W_Close ==
    /\ spc = "open"
    /\ \E payload \in Payloads : \E k \in 0..(Len(Frame(payload)) - 1) :
        /\ stream' = stream \o SubSeq(Frame(payload), 1, k)
        /\ slog' = Append(slog, Ev("close", k, payload))
    /\ spc' = "closed"
    /\ UNCHANGED <<frameRest, cpc, msg_len, bytes_received, result, clog>>

\* socket.recv(n) can return: at least one byte and at most n of the bytes
\* that have arrived, or nothing at the end of the stream
CanRecv == stream # <<>> \/ spc = "closed"
RecvSizes(n) == IF stream = <<>> THEN {0} ELSE 1..Min(n, Len(stream))

\* client.py 81-85, server.py 127-128: msg_len_bytes = recv(4), one call;
\* only the client tests for the empty read
RR_RecvPrefix ==
    /\ cpc = "recv_prefix" /\ CanRecv
    /\ \E k \in RecvSizes(PrefixLen) :
        LET msg_len_bytes == SubSeq(stream, 1, k) IN
        /\ stream' = SubSeq(stream, k + 1, Len(stream))
        /\ clog' = Append(clog, Ev("prefix", k, msg_len_bytes))
        /\ IF reader = "client" /\ msg_len_bytes = <<>>
           THEN /\ result' = "ConnectionError"
                /\ cpc' = "raised"
                /\ UNCHANGED <<msg_len, bytes_received>>
           ELSE /\ msg_len' = from_bytes(msg_len_bytes)
                /\ bytes_received' = <<>>
                /\ cpc' = "recv_payload"
                /\ result' = result
    /\ UNCHANGED <<frameRest, spc, slog>>

\* client.py 90-95, server.py 133-138: one recv of the payload loop
RR_RecvPayload ==
    /\ cpc = "recv_payload" /\ Len(bytes_received) < msg_len /\ CanRecv
    /\ \E k \in RecvSizes(msg_len - Len(bytes_received)) :
        LET chunk == SubSeq(stream, 1, k) IN
        /\ stream' = SubSeq(stream, k + 1, Len(stream))
        /\ IF chunk = <<>>
           THEN /\ result' = "ConnectionError"
                /\ cpc' = "raised"
                /\ UNCHANGED bytes_received
           ELSE /\ bytes_received' = bytes_received \o chunk
                /\ UNCHANGED <<cpc, result>>
    /\ UNCHANGED <<frameRest, spc, msg_len, slog, clog>>

\* client.py 97-98, server.py 140-141: the loop is over, json.loads
RR_Loads ==
    /\ cpc = "recv_payload" /\ Len(bytes_received) >= msg_len
    /\ IF json_loads_ok(bytes_received)
       THEN /\ clog' = Append(clog, Ev("return", Len(bytes_received), bytes_received))
            /\ cpc' = "recv_prefix"
            /\ result' = result
       ELSE /\ result' = "JSONDecodeError"
            /\ cpc' = "raised"
            /\ clog' = clog
    /\ UNCHANGED <<frameRest, spc, stream, msg_len, bytes_received, slog>>

FrameNext == W_Send \/ W_Close \/ RR_RecvPrefix \/ RR_RecvPayload \/ RR_Loads

FrameSpec == FrameInit /\ [][FrameNext]_vars

\* the payloads written whole by the peer, and the values the reads returned
Sent == SelectSeq(slog, LAMBDA ev : ev.ev = "send")
Returned == SelectSeq(clog, LAMBDA ev : ev.ev = "return")

\* C16: however the byte stream is cut into reads, the k-th value returned by
\* receive_response / receive_request is the k-th payload the peer sent.
C16_WholeFramesInOrder ==
    \A k \in 1..Len(Returned) : k <= Len(Sent) /\ Returned[k].x = Sent[k].x

\* C17: when every whole message has been returned and the stream has ended
\* on less than a whole frame, the read that met the end of the stream has
\* raised the connection-closed error.
C17_EndOfStreamIsConnectionClosed ==
    (/\ cpc = "raised" /\ spc = "closed" /\ stream = <<>>
     /\ Len(Returned) = Len(Sent) /\ C16_WholeFramesInOrder)
    => result = "ConnectionError"

\* the receiver is inside its receive loop, about to read the next message
InReceiveLoop ==
    \/ Mayhem /\ cpc = "loop" /\ iter < num_chunks * 2
    \/ Mayhem /\ cpc = "wait_json"
    \/ FirstTask /\ cpc = "recv_chunks"

\* C18: in both variants the receiver is never inside its receive loop with
\* as many chunks stored as were declared: it has left the loop without
\* waiting for the end marker.
C18_LeavesLoopWhenComplete ==
    InReceiveLoop => Cardinality(Stored) < num_chunks

\* the verdicts of the receiver: on the connection, and read by the sender
VerdictTypes == {"SUCCESS", "CHECKSUM_MISMATCH"}
VerdictsInFlight == SelectSeq(c2s, LAMBDA m : m.type \in VerdictTypes)
VerdictsRead == SelectSeq(slog, LAMBDA ev : ev.ev = "result" /\ ev.x \in VerdictTypes)

\* the receiver has put the file together and compared the digests
ReachedVerification ==
    \/ Mayhem /\ InLog(clog, "reassemble")
    \/ FirstTask /\ InLog(clog, "save")

\* the reassembled bytes the receiver compared
Reassembled ==
    IF Mayhem THEN clog[CHOOSE k \in 1..Len(clog) : clog[k].ev = "reassemble"].x
    ELSE output

\* C19: in both variants, once the receiver has reached verification there
\* is exactly one verdict, on the connection or read by the sender; it is
\* SUCCESS exactly when the digest of the reassembled bytes is the declared
\* one; and the sender does not close before it has read the verdict.
C19_OneVerdictReachesSender ==
    ReachedVerification =>
        /\ Len(VerdictsInFlight) + Len(VerdictsRead) = 1
        /\ LET verdict == IF VerdictsRead # <<>> THEN VerdictsRead[1].x
                          ELSE VerdictsInFlight[1].type
           IN verdict = "SUCCESS" <=>
                  calculate_checksum(Reassembled) =
                      (IF Mayhem THEN server_checksum.value ELSE server_checksum)
        /\ spc = "closed" => Len(VerdictsRead) = 1

\* the receiver found the digest of the reassembled file different from the
\* declared one
MismatchSeen ==
    \/ Mayhem /\ result = "CHECKSUM_MISMATCH"
    \/ FirstTask /\ InLog(clog, "save") /\ calculate_checksum(output) # server_checksum

\* C20: in both variants, once the digest of the reassembled file has been
\* found different from the declared one, the reassembled file is saved, the
\* receiver has ended without success, and no further attempt is started.
C20_MismatchIsTerminal ==
    MismatchSeen =>
        /\ result \notin {"SUCCESS", "True"}
        /\ output = Reassembled
        /\ cpc \in {"returned", "closed"}
        /\ retry_count = 0

\* ------------------------------------------------------------ the listener
\* and several sessions at once

\* the connections made to one server
Sessions == {1, 2}

\* the files the clients upload, one each, all different
MultiFiles == {<<>>, <<0>>, <<1, 1>>, <<0, 1, 1>>}

\* mayhem server.py 28: client_id = f"{addr[0]}:{addr[1]}_{int(time.time())}",
\* the address of the connection s
ClientId_Shared(s) == <<"addr", 0>>

ClientId(s) == <<"addr", s>>

\* the bytes the handler of connection s works on: its local file_data
HandlerData_Stored(s) ==
    IF DOMAIN client_data = {} THEN sess[s].file_data
    ELSE client_data[CHOOSE id \in DOMAIN client_data :
                        \A other \in DOMAIN client_data : id[2] >= other[2]].file_data

HandlerData(s) == sess[s].file_data

\* what the accept loop does with the connection it accepted: mayhem
\* server.py 179-182 starts a thread and goes on, first_task server.py 50-52
\* calls handle_client itself
ListenerAfterAccept_Inline(s) == {s}

ListenerAfterAccept(s) == IF Mayhem THEN {} ELSE {s}

singleVars == <<variant, file, errorsOn, max_retries, chunk_size, frameVars, cpc, spc,
                s2c, c2s, serverVars, clientVars, slog, clog>>

NewSession(f) ==
    [cpc |-> "idle", spc |-> "none", file |-> f, s2c |-> <<>>, c2s |-> <<>>,
     file_size |-> 0, file_data |-> <<>>, chunks |-> <<>>, i |-> 0,
     json_data |-> Msg("none"), server_checksum |-> Msg("none"), num_chunks |-> 0,
     iter |-> 0, received |-> EmptyBuf, result |-> "none", output |-> "none",
     faulted |-> FALSE]

MultiInit ==
    /\ variant \in {"mayhem", "first_task"}
    /\ errorsOn \in BOOLEAN
    /\ file = <<>>
    /\ max_retries = 0
    /\ chunk_size = CHUNK_SIZE
    /\ NoFraming
    /\ retry_count = 0
    /\ cpc = "none"
    /\ spc = "none"
    /\ s2c = <<>>
    /\ c2s = <<>>
    /\ file_size = 0
    /\ file_data = <<>>
    /\ chunks = <<>>
    /\ i = 0
    /\ json_data = Msg("none")
    /\ server_checksum = Msg("none")
    /\ num_chunks = 0
    /\ iter = 0
    /\ received = EmptyBuf
    /\ result = "none"
    /\ output = "none"
    /\ slog = <<>>
    /\ clog = <<>>
    /\ listener = {}
    /\ backlog = <<>>
    /\ \E f \in [Sessions -> MultiFiles] :
        /\ \A s, t \in Sessions : s # t => f[s] # f[t]
        /\ sess = [s \in Sessions |-> NewSession(f[s])]
    /\ client_data = [id \in {} |-> <<>>]
    /\ sweeps = {}

Set(s, r) == sess' = [sess EXCEPT ![s] = r]
XCanRecvC(s) == sess[s].s2c # <<>> \/ sess[s].spc = "closed"
XCanRecvS(s) == sess[s].c2s # <<>> \/ sess[s].cpc = "closed"
XHeadC(s) == IF sess[s].s2c # <<>> THEN Head(sess[s].s2c) ELSE EOF
XHeadS(s) == IF sess[s].c2s # <<>> THEN Head(sess[s].c2s) ELSE EOF
XTailC(s) == IF sess[s].s2c # <<>> THEN Tail(sess[s].s2c) ELSE <<>>
XTailS(s) == IF sess[s].c2s # <<>> THEN Tail(sess[s].c2s) ELSE <<>>

\* socket.connect: the connection is made and waits in the listen queue
XC_Connect(s) ==
    /\ sess[s].cpc = "idle"
    /\ Set(s, [sess[s] EXCEPT !.cpc = "connect"])
    /\ backlog' = Append(backlog, s)
    /\ UNCHANGED <<singleVars, listener, client_data, sweeps>>

\* mayhem server.py 178-182, first_task server.py 49-52: accept, then a
\* thread for the connection or the call of handle_client
L_Accept ==
    /\ listener = {} /\ backlog # <<>>
    /\ LET s == Head(backlog) IN
        /\ Set(s, [sess[s] EXCEPT !.spc = IF Mayhem THEN "accept" ELSE "handle_client"])
        /\ listener' = ListenerAfterAccept(s)
    /\ backlog' = Tail(backlog)
    /\ UNCHANGED <<singleVars, client_data, sweeps>>

\* the handler of s returns: mayhem server.py 157-167 starts the cleanup
\* thread and closes; the caller of an inline handler is free again
Finish(s) ==
    /\ listener' = listener \ {s}
    /\ sweeps' = IF Mayhem THEN sweeps \cup {ClientId(s)} ELSE sweeps

\* mayhem server.py 158-162 cleanup, after time.sleep(60)
X_Cleanup ==
    /\ \E id \in sweeps :
        /\ sweeps' = sweeps \ {id}
        /\ client_data' = [k \in DOMAIN client_data \ {id} |-> client_data[k]]
    /\ UNCHANGED <<singleVars, listener, backlog, sess>>

\* ---- mayhem client, connection s
XC_SendSize(s) ==
    /\ Mayhem /\ sess[s].cpc = "connect"
    /\ Set(s, [sess[s] EXCEPT !.cpc = "wait_size_ack",
                  !.c2s = Append(@, [type |-> "size", n |-> Len(sess[s].file)])])
    /\ UNCHANGED <<singleVars, listener, backlog, client_data, sweeps>>

XC_SendFile(s) ==
    /\ Mayhem /\ sess[s].cpc = "wait_size_ack" /\ XCanRecvC(s)
    /\ Set(s, [sess[s] EXCEPT !.cpc = "wait_checksum", !.s2c = XTailC(s),
                  !.c2s = IF Len(sess[s].file) > 0
                          THEN Append(@, [type |-> "file", data |-> sess[s].file])
                          ELSE @])
    /\ UNCHANGED <<singleVars, listener, backlog, client_data, sweeps>>

XC_RecvChecksum(s) ==
    /\ Mayhem /\ sess[s].cpc = "wait_checksum" /\ XCanRecvC(s)
    /\ LET m == XHeadC(s)
           mismatch == m.type # "checksum" \/ m.value # calculate_checksum(sess[s].file)
       IN Set(s, [sess[s] EXCEPT !.s2c = XTailC(s), !.server_checksum = m,
                     !.cpc = IF mismatch THEN "closed" ELSE "wait_count"])
    /\ UNCHANGED <<singleVars, listener, backlog, client_data, sweeps>>

XC_RecvCount(s) ==
    /\ Mayhem /\ sess[s].cpc = "wait_count" /\ XCanRecvC(s)
    /\ LET m == XHeadC(s) IN
       IF m.type = "count"
       THEN Set(s, [sess[s] EXCEPT !.s2c = XTailC(s), !.num_chunks = m.n,
                       !.c2s = Append(@, Msg("OK")), !.cpc = "loop"])
       ELSE Set(s, [sess[s] EXCEPT !.s2c = XTailC(s), !.cpc = "closed"])
    /\ UNCHANGED <<singleVars, listener, backlog, client_data, sweeps>>

XC_LoopExhausted(s) ==
    /\ Mayhem /\ sess[s].cpc = "loop" /\ sess[s].iter = sess[s].num_chunks * 2
    /\ Set(s, [sess[s] EXCEPT !.cpc = "final"])
    /\ UNCHANGED <<singleVars, listener, backlog, client_data, sweeps>>

XC_RecvLen(s) ==
    /\ Mayhem /\ sess[s].cpc = "loop" /\ sess[s].iter < sess[s].num_chunks * 2
    /\ XCanRecvC(s)
    /\ LET m == XHeadC(s) IN
       IF m.type = "TRANSFER_COMPLETE"
       THEN Set(s, [sess[s] EXCEPT !.s2c = XTailC(s), !.iter = @ + 1, !.cpc = "final"])
       ELSE IF m.type = "len"
       THEN Set(s, [sess[s] EXCEPT !.s2c = XTailC(s), !.iter = @ + 1,
                       !.c2s = Append(@, Msg("OK")), !.cpc = "wait_json"])
       ELSE Set(s, [sess[s] EXCEPT !.s2c = XTailC(s), !.iter = @ + 1,
                       !.c2s = Append(@, Msg("ERROR")), !.cpc = "final"])
    /\ UNCHANGED <<singleVars, listener, backlog, client_data, sweeps>>

XC_RecvChunk(s) ==
    /\ Mayhem /\ sess[s].cpc = "wait_json" /\ XCanRecvC(s)
    /\ \E partial \in BOOLEAN :
        /\ partial => (sess[s].s2c # <<>> /\ XHeadC(s).type = "chunk")
        /\ LET m == XHeadC(s)
               buf == MC_Store(sess[s].received, m.sequence, fromhex(m.data))
           IN IF partial \/ m.type # "chunk"
              THEN Set(s, [sess[s] EXCEPT !.cpc = "loop",
                              !.s2c = IF partial THEN <<Msg("rest")>> \o XTailC(s)
                                      ELSE XTailC(s),
                              !.c2s = Append(@, Msg("RETRANSMIT_LAST"))])
              ELSE IF ~MC_Verify(m)
              THEN Set(s, [sess[s] EXCEPT !.s2c = XTailC(s), !.cpc = "loop",
                              !.c2s = Append(@, [type |-> "RETRANSMIT",
                                                 seq |-> m.sequence])])
              ELSE Set(s, [sess[s] EXCEPT !.s2c = XTailC(s), !.received = buf,
                              !.c2s = Append(@, Msg("OK")),
                              !.cpc = IF Cardinality(DOMAIN buf) = sess[s].num_chunks
                                      THEN "final" ELSE "loop"])
    /\ UNCHANGED <<singleVars, listener, backlog, client_data, sweeps>>

XC_Final(s) ==
    /\ Mayhem /\ sess[s].cpc = "final" /\ XCanRecvC(s)
    /\ LET reassembled_data == Reassemble(sess[s].received, sess[s].num_chunks) IN
       IF XHeadC(s).type # "TRANSFER_COMPLETE"
       THEN Set(s, [sess[s] EXCEPT !.s2c = XTailC(s), !.cpc = "closed",
                       !.result = "ERROR", !.c2s = Append(@, Msg("ERROR"))])
       ELSE IF calculate_checksum(reassembled_data) = sess[s].server_checksum.value
       THEN Set(s, [sess[s] EXCEPT !.s2c = XTailC(s), !.cpc = "closed",
                       !.result = "SUCCESS", !.output = reassembled_data,
                       !.c2s = Append(@, Msg("SUCCESS"))])
       ELSE Set(s, [sess[s] EXCEPT !.s2c = XTailC(s), !.cpc = "closed",
                       !.result = "CHECKSUM_MISMATCH",
                       !.c2s = Append(@, Msg("CHECKSUM_MISMATCH"))])
    /\ UNCHANGED <<singleVars, listener, backlog, client_data, sweeps>>

\* ---- mayhem handler thread of connection s
XS_RecvSize(s) ==
    /\ Mayhem /\ sess[s].spc = "accept" /\ XCanRecvS(s)
    /\ IF XHeadS(s).type = "size"
       THEN /\ Set(s, [sess[s] EXCEPT !.c2s = XTailS(s), !.file_size = XHeadS(s).n,
                          !.s2c = Append(@, Msg("OK")), !.spc = "recv_file"])
            /\ UNCHANGED <<listener, sweeps>>
       ELSE /\ Set(s, [sess[s] EXCEPT !.c2s = XTailS(s), !.spc = "closed"])
            /\ Finish(s)
    /\ UNCHANGED <<singleVars, backlog, client_data>>

\* server.py 43-63: receive the file, then client_data[client_id] = {...}
XS_RecvFile(s) ==
    /\ Mayhem /\ sess[s].spc = "recv_file"
    /\ sess[s].file_size > 0 => XCanRecvS(s)
    /\ LET data == IF sess[s].file_size > 0 /\ XHeadS(s).type = "file"
                   THEN XHeadS(s).data ELSE <<>>
       IN /\ Set(s, [sess[s] EXCEPT !.file_data = data, !.spc = "send_checksum",
                        !.c2s = IF sess[s].file_size > 0 THEN XTailS(s) ELSE @])
          /\ client_data' =
                 [id \in DOMAIN client_data \cup {ClientId(s)} |->
                     IF id = ClientId(s)
                     THEN [file_data |-> data, checksum |-> calculate_checksum(data),
                           addr |-> s]
                     ELSE client_data[id]]
    /\ UNCHANGED <<singleVars, listener, backlog, sweeps>>

XS_SendChecksum(s) ==
    /\ Mayhem /\ sess[s].spc = "send_checksum"
    /\ Set(s, [sess[s] EXCEPT !.spc = "send_count",
                  !.s2c = Append(@, [type |-> "checksum",
                                     value |-> calculate_checksum(HandlerData(s))])])
    /\ UNCHANGED <<singleVars, listener, backlog, client_data, sweeps>>

XS_SendCount(s) ==
    /\ Mayhem /\ sess[s].spc = "send_count"
    /\ LET list == SplitChunks(HandlerData(s)) IN
       Set(s, [sess[s] EXCEPT !.spc = "wait_ready", !.chunks = list,
                  !.s2c = Append(@, [type |-> "count", n |-> Len(list)])])
    /\ UNCHANGED <<singleVars, listener, backlog, client_data, sweeps>>

XS_WaitReady(s) ==
    /\ Mayhem /\ sess[s].spc = "wait_ready" /\ XCanRecvS(s)
    /\ Set(s, [sess[s] EXCEPT !.c2s = XTailS(s), !.i = 0, !.spc = "for"])
    /\ UNCHANGED <<singleVars, listener, backlog, client_data, sweeps>>

XS_NextChunk(s) ==
    /\ Mayhem /\ sess[s].spc = "for" /\ sess[s].i < Len(sess[s].chunks)
    /\ \E fault \in Faults :
        LET k == sess[s].i
            chunk == sess[s].chunks[k + 1]
            msg == ChunkJson(k, chunk, IF fault = "corrupt" THEN corrupted_checksum
                                       ELSE md5(chunk))
        IN IF fault = "drop"
           THEN Set(s, [sess[s] EXCEPT !.i = k + 1, !.faulted = TRUE])
           ELSE Set(s, [sess[s] EXCEPT !.json_data = msg, !.spc = "wait_len_ack",
                           !.s2c = Append(@, [type |-> "len", n |-> Len(msg.data)])])
    /\ UNCHANGED <<singleVars, listener, backlog, client_data, sweeps>>

XS_SendChunk(s) ==
    /\ Mayhem /\ sess[s].spc = "wait_len_ack" /\ XCanRecvS(s)
    /\ Set(s, [sess[s] EXCEPT !.c2s = XTailS(s), !.spc = "wait_ack",
                  !.s2c = Append(@, sess[s].json_data)])
    /\ UNCHANGED <<singleVars, listener, backlog, client_data, sweeps>>

XS_RecvAck(s) ==
    /\ Mayhem /\ sess[s].spc = "wait_ack" /\ XCanRecvS(s)
    /\ LET ack == XHeadS(s) IN
       IF ack.type = "RETRANSMIT" /\ ack.seq \in 0..(Len(sess[s].chunks) - 1)
       THEN /\ LET msg == Retransmission(sess[s].chunks, ack.seq) IN
               Set(s, [sess[s] EXCEPT !.c2s = XTailS(s), !.json_data = msg,
                          !.spc = "wait_len_ack",
                          !.s2c = Append(@, [type |-> "len", n |-> Len(msg.data)])])
            /\ UNCHANGED <<listener, sweeps>>
       ELSE IF ack.type \in {"RETRANSMIT", "RETRANSMIT_LAST"}
       THEN /\ Set(s, [sess[s] EXCEPT !.c2s = XTailS(s), !.spc = "closed"])
            /\ Finish(s)
       ELSE /\ Set(s, [sess[s] EXCEPT !.c2s = XTailS(s), !.i = @ + 1, !.spc = "for"])
            /\ UNCHANGED <<listener, sweeps>>
    /\ UNCHANGED <<singleVars, backlog, client_data>>

XS_SendComplete(s) ==
    /\ Mayhem /\ sess[s].spc = "for" /\ sess[s].i >= Len(sess[s].chunks)
    /\ Set(s, [sess[s] EXCEPT !.spc = "wait_result",
                  !.s2c = Append(@, Msg("TRANSFER_COMPLETE"))])
    /\ UNCHANGED <<singleVars, listener, backlog, client_data, sweeps>>

XS_RecvResult(s) ==
    /\ Mayhem /\ sess[s].spc = "wait_result" /\ XCanRecvS(s)
    /\ Set(s, [sess[s] EXCEPT !.c2s = XTailS(s), !.spc = "closed"])
    /\ Finish(s)
    /\ UNCHANGED <<singleVars, backlog, client_data>>

\* ---- first_task client, connection s
XFC_SendUpload(s) ==
    /\ FirstTask /\ sess[s].cpc = "connect"
    /\ Set(s, [sess[s] EXCEPT !.cpc = "wait_ready",
                  !.c2s = Append(@, [type |-> "request", command |-> "upload",
                                     file_data |-> latin1_decode(sess[s].file)])])
    /\ UNCHANGED <<singleVars, listener, backlog, client_data, sweeps>>

XFC_RecvReady(s) ==
    /\ FirstTask /\ sess[s].cpc = "wait_ready" /\ sess[s].s2c # <<>>
    /\ LET response == Head(sess[s].s2c) IN
       IF response.type # "ready"
       THEN Set(s, [sess[s] EXCEPT !.s2c = Tail(@), !.result = "False",
                       !.cpc = "returned"])
       ELSE Set(s, [sess[s] EXCEPT !.s2c = Tail(@), !.cpc = "recv_chunks",
                       !.server_checksum = response.checksum,
                       !.num_chunks = response.total_chunks, !.received = EmptyBuf])
    /\ UNCHANGED <<singleVars, listener, backlog, client_data, sweeps>>

XFC_RecvChunk(s) ==
    /\ FirstTask /\ sess[s].cpc = "recv_chunks" /\ sess[s].s2c # <<>>
    /\ Head(sess[s].s2c).type = "chunk"
    /\ LET m == Head(sess[s].s2c) IN
       Set(s, [sess[s] EXCEPT !.s2c = Tail(@),
                  !.received = [q \in DOMAIN @ \cup {m.sequence} |->
                                   IF q = m.sequence THEN fromhex(m.data) ELSE @[q]]])
    /\ UNCHANGED <<singleVars, listener, backlog, client_data, sweeps>>

\* max_retries = 0: the attempt is the only one
XFC_RecvEnd(s) ==
    /\ FirstTask /\ sess[s].cpc = "recv_chunks" /\ sess[s].s2c # <<>>
    /\ Head(sess[s].s2c).type = "end"
    /\ LET complete == FC_Complete(sess[s].received, sess[s].num_chunks)
           saved == save_file(sess[s].received)
           verified == complete /\ FC_Verified(saved, sess[s].server_checksum)
       IN Set(s, [sess[s] EXCEPT !.s2c = Tail(@), !.cpc = "returned",
                     !.output = IF complete THEN saved ELSE @,
                     !.result = IF verified THEN "True" ELSE "False"])
    /\ UNCHANGED <<singleVars, listener, backlog, client_data, sweeps>>

XFC_Disconnect(s) ==
    /\ FirstTask /\ sess[s].cpc = "returned"
    /\ Set(s, [sess[s] EXCEPT !.cpc = "closed",
                  !.c2s = Append(@, [type |-> "request", command |-> "disconnect",
                                     file_data |-> <<>>])])
    /\ UNCHANGED <<singleVars, listener, backlog, client_data, sweeps>>

\* ---- first_task handle_client of connection s, run by the accept loop
XF_HandleRequest(s) ==
    /\ FirstTask /\ sess[s].spc = "handle_client" /\ XCanRecvS(s)
    /\ LET request == XHeadS(s) IN
       IF request.type = "eof" \/ request.command = "disconnect"
       THEN /\ Set(s, [sess[s] EXCEPT !.c2s = XTailS(s), !.spc = "closed"])
            /\ Finish(s)
       ELSE IF request.file_data = <<>>
       THEN /\ Set(s, [sess[s] EXCEPT !.c2s = XTailS(s),
                          !.s2c = Append(@, [type |-> "error", message |-> "missing"])])
            /\ UNCHANGED <<listener, sweeps>>
       ELSE /\ \E list \in Shuffles(split_file(latin1_encode(request.file_data))) :
                Set(s, [sess[s] EXCEPT !.c2s = XTailS(s),
                           !.file_data = latin1_encode(request.file_data),
                           !.chunks = list, !.i = 0, !.spc = "for",
                           !.s2c = Append(@, [type |-> "ready",
                               checksum |-> calculate_checksum(latin1_encode(request.file_data)),
                               total_chunks |-> Len(list)])])
            /\ UNCHANGED <<listener, sweeps>>
    /\ UNCHANGED <<singleVars, backlog, client_data>>

XF_NextChunk(s) ==
    /\ FirstTask /\ sess[s].spc = "for" /\ sess[s].i < Len(sess[s].chunks)
    /\ LET c == sess[s].chunks[sess[s].i + 1] IN
       \E fault \in Faults :
           IF fault = "drop"
           THEN Set(s, [sess[s] EXCEPT !.i = @ + 1, !.faulted = TRUE])
           ELSE \E sent \in (IF fault = "corrupt" THEN Corruptions(c.data) ELSE {c.data}) :
                Set(s, [sess[s] EXCEPT !.i = @ + 1,
                           !.faulted = @ \/ fault = "corrupt",
                           !.s2c = Append(@, [type |-> "chunk", sequence |-> c.seq,
                                              data |-> hex(sent)])])
    /\ UNCHANGED <<singleVars, listener, backlog, client_data, sweeps>>

XF_SendEnd(s) ==
    /\ FirstTask /\ sess[s].spc = "for" /\ sess[s].i >= Len(sess[s].chunks)
    /\ Set(s, [sess[s] EXCEPT !.spc = "handle_client",
                  !.s2c = Append(@, [type |-> "end", message |-> "complete"])])
    /\ UNCHANGED <<singleVars, listener, backlog, client_data, sweeps>>

\* the steps of connection s: its client and its handler
ClientStep(s) ==
    \/ XC_Connect(s) \/ XC_SendSize(s) \/ XC_SendFile(s) \/ XC_RecvChecksum(s)
    \/ XC_RecvCount(s) \/ XC_LoopExhausted(s) \/ XC_RecvLen(s) \/ XC_RecvChunk(s)
    \/ XC_Final(s)
    \/ XFC_SendUpload(s) \/ XFC_RecvReady(s) \/ XFC_RecvChunk(s) \/ XFC_RecvEnd(s)
    \/ XFC_Disconnect(s)

HandlerStep(s) ==
    \/ XS_RecvSize(s) \/ XS_RecvFile(s) \/ XS_SendChecksum(s) \/ XS_SendCount(s)
    \/ XS_WaitReady(s) \/ XS_NextChunk(s) \/ XS_SendChunk(s) \/ XS_RecvAck(s)
    \/ XS_SendComplete(s) \/ XS_RecvResult(s)
    \/ XF_HandleRequest(s) \/ XF_NextChunk(s) \/ XF_SendEnd(s)

MultiNext ==
    \/ L_Accept \/ X_Cleanup
    \/ \E s \in Sessions : ClientStep(s) \/ HandlerStep(s)

MultiSpec == MultiInit /\ [][MultiNext]_vars

\* the handler of s is between two receives, or the bytes it waits for have
\* arrived (or its client has closed)
HandlerReady(s) ==
    \/ sess[s].spc \in {"send_checksum", "send_count", "for"}
    \/ sess[s].spc = "recv_file" /\ sess[s].file_size = 0
    \/ sess[s].spc \in {"accept", "recv_file", "wait_ready", "wait_len_ack", "wait_ack",
                        "wait_result", "handle_client"} /\ XCanRecvS(s)

\* the handler of s is streaming chunks or blocked in a receive
HandlerBusy(s) ==
    sess[s].spc \in {"accept", "recv_file", "wait_ready", "for", "wait_len_ack",
                     "wait_ack", "wait_result", "handle_client"}

\* C21: on the mayhem server the accept loop handles no connection itself:
\* whatever the sessions are doing, a connection that waits is accepted in the
\* next step of the listener, and every handler that is ready can take its step
C21_ListenerAndSessionsIndependent ==
    Mayhem /\ sess # <<>> =>
        /\ listener = {}
        /\ backlog # <<>> => ENABLED L_Accept
        /\ \A s \in Sessions : HandlerReady(s) => ENABLED HandlerStep(s)

C21_Witness ==
    /\ Mayhem /\ sess # <<>> /\ backlog # <<>>
    /\ \E s, t \in Sessions :
        /\ s # t
        /\ sess[s].spc = "wait_ack" /\ ~XCanRecvS(s)
        /\ sess[t].spc = "none" /\ t = Head(backlog)

\* C22: on the first_task server a connection that waits is accepted in the
\* next step of the listener, whatever the connection accepted before it is
\* doing
C22_ListenerNeverBlocks ==
    FirstTask /\ sess # <<>> => (backlog # <<>> => ENABLED L_Accept)

\* the message m on the connection s is what the server computes from the
\* file uploaded on s
FromOwnFile(s, m) ==
    LET own == SplitChunks(sess[s].file) IN
    /\ m.type = "checksum" => m.value = calculate_checksum(sess[s].file)
    /\ m.type = "count" => m.n = Len(own)
    /\ m.type = "chunk" =>
        /\ m.sequence \in 0..(Len(own) - 1)
        /\ m.data = hex(own[m.sequence + 1])

OwnMessagesOnly ==
    Mayhem /\ sess # <<>> =>
        \A s \in Sessions :
            /\ \A k \in 1..Len(sess[s].s2c) : FromOwnFile(s, sess[s].s2c[k])
            /\ sess[s].spc # "none" => FromOwnFile(s, sess[s].json_data)
            /\ sess[s].result = "SUCCESS" => sess[s].output = sess[s].file

\* a step of one connection leaves the state of the other connections alone
OneSessionPerStep ==
    sess # <<>> =>
        \A s, t \in Sessions : s # t /\ sess'[s] # sess[s] => sess'[t] = sess[t]

\* C23: with several mayhem sessions on different files, in every
\* interleaving, every checksum, count and chunk on a connection is computed
\* from the file uploaded on that connection, a session that reports SUCCESS
\* has written its own file, and no step of one session changes another
C23_SessionsIsolated == []OwnMessagesOnly /\ [][OneSessionPerStep]_vars

C23_Witness ==
    /\ Mayhem /\ sess # <<>>
    /\ \A s \in Sessions :
        /\ sess[s].s2c # <<>> /\ Head(sess[s].s2c).type = "chunk"
        /\ sess[s].file # <<>>

Records == DOMAIN client_data

\* C24 as stated: the record of a session is there only once its handler has
\* ended
C24_WrittenAtSessionEnd ==
    Mayhem /\ sess # <<>> =>
        \A s \in Sessions : ClientId(s) \in Records => sess[s].spc = "closed"

\* a step writes a record only as the handler of that connection, once, when
\* it has received the upload; it changes no record; it deletes a record only
\* as the cleanup thread started when that handler ended
RecordStep ==
    Mayhem /\ sess # <<>> =>
        \A s \in Sessions :
            LET id == ClientId(s) IN
            /\ id \notin Records /\ id \in DOMAIN client_data' =>
                /\ sess[s].spc = "recv_file" /\ sess'[s].spc = "send_checksum"
                /\ client_data'[id].file_data = sess'[s].file_data
            /\ id \in Records /\ id \in DOMAIN client_data' =>
                client_data'[id] = client_data[id]
            /\ id \in Records /\ id \notin DOMAIN client_data' =>
                /\ sess[s].spc = "closed"
                /\ id \in sweeps /\ id \notin sweeps'

\* the record of a closed connection has its cleanup thread waiting
RecordSwept ==
    Mayhem /\ sess # <<>> =>
        \A s \in Sessions :
            /\ ClientId(s) \in Records /\ sess[s].spc = "closed" =>
                ClientId(s) \in sweeps /\ ENABLED X_Cleanup
            /\ ClientId(s) \in Records => sess[s].spc \notin {"none", "accept", "recv_file"}

\* C24 (amended): the record of a session is written once, by its own
\* handler, when the upload has been received (before the checksum is sent
\* back); no step changes it; only the cleanup thread of the same session
\* deletes it, after the handler has ended, and that thread is waiting
\* whenever the record of an ended session is still there
C24_RecordWrittenAfterUpload == []RecordSwept /\ [][RecordStep]_vars

C24_Witness ==
    /\ Mayhem /\ sess # <<>>
    /\ \E s, t \in Sessions :
        /\ s # t
        /\ ClientId(s) \in Records /\ sess[s].spc = "wait_ack"
        /\ sess[t].spc = "closed" /\ ClientId(t) \notin Records /\ ClientId(t) \notin sweeps

\* the handler is in a receive that returns the end of the stream: the client
\* has closed and nothing it sent is left unread
ReadsEndOfStream ==
    /\ cpc = "closed" /\ c2s = <<>>
    /\ spc \in {"recv_file", "wait_ready", "wait_len_ack", "wait_ack", "wait_result",
                "handle_client"}

\* C25: when a receive of the server's handler returns the end of the stream
\* because the client has closed, the handler's next step ends the session: it
\* goes to its closed state and sends nothing more
C25_PeerCloseUnwinds ==
    [][ReadsEndOfStream /\ spc' # spc => spc' = "closed" /\ s2c' = s2c]_vars

\* C26: when the handler reads the acknowledgement that the client sends for a
\* chunk message it could not decode, it resends the chunk it sent last and the
\* session goes on, as after a digest mismatch
C26_UndecodableChunkIsResent ==
    [][Mayhem /\ spc = "wait_ack" /\ c2s # <<>> /\ Head(c2s).type = "RETRANSMIT_LAST"
         /\ spc' # spc
       => /\ spc' = "wait_len_ack"
          /\ json_data' = Retransmission(chunks, json_data.sequence)]_vars

ChunkInFlight == \E k \in 1..Len(s2c) : s2c[k].type = "chunk"

\* the handler has sent the metadata and then read the receiver's OK
ReadyAcknowledged ==
    \E a, b \in 1..Len(slog) :
        /\ a < b
        /\ slog[a].ev = "metadata"
        /\ slog[b].ev = "ready" /\ slog[b].x = "OK"

\* C27: in both variants a chunk message is on the connection only after the
\* sender has sent the metadata and has then read the receiver's
\* acknowledgement of readiness
C27_FirstChunkAfterReady == ChunkInFlight => ReadyAcknowledged

Returned_upload_file == cpc \in {"returned", "closed"}

\* the steps an upload request still costs: the server's handling, a send and
\* a receive for each chunk and for the end frame
UploadCost == 2 * Len(file) + 4

RECURSIVE RequestsCost(_)
RequestsCost(q) ==
    IF q = <<>> THEN 0
    ELSE (IF Head(q).command = "upload" THEN UploadCost ELSE 1) + RequestsCost(Tail(q))

\* a bound on the steps left until both sides are at rest; every step of
\* client or server lowers it
StepsLeft ==
    (max_retries - retry_count) * (UploadCost + 2)
    + (IF cpc = "upload" THEN UploadCost + 1 ELSE 0)
    + (IF cpc \in {"upload", "wait_ready", "recv_chunks"} THEN 3 ELSE 0)
    + (IF cpc = "returned" THEN 2 ELSE 0)
    + RequestsCost(c2s)
    + (IF spc = "for" THEN 2 * (Len(chunks) - i + 1) ELSE 0)
    + Len(s2c)

UploadResult ==
    FirstTask =>
        /\ retry_count <= max_retries
        /\ Returned_upload_file <=> result \in {"True", "False"}
        /\ result = "True" =>
            FC_Complete(received, num_chunks) /\ FC_Verified(output, server_checksum)
        /\ result = "False" => retry_count = max_retries \/ InLog(slog, "error")
        /\ StepsLeft >= 0
        /\ ~Returned_upload_file => ENABLED Next

\* the attempt that has every chunk and a matching digest returns True at once
ReturnsOnFirstSuccess ==
    FirstTask /\ cpc = "recv_chunks" /\ cpc' # cpc
        /\ FC_Complete(received, num_chunks)
        /\ FC_Verified(save_file(received), server_checksum)
    => result' = "True" /\ cpc' = "returned" /\ retry_count' = retry_count

\* C28: upload_file of first_task on a fresh client returns, and returns True
\* or False: until it has returned a step is always possible and every step
\* lowers a bound on the steps left; it makes at most max_retries retries
\* after the first attempt, returns True in the first attempt that has all
\* chunks and a matching digest, and returns False only when the retries are
\* used up or the server refused the upload
C28_UploadTerminatesWithBoolean ==
    /\ []UploadResult
    /\ [][ReturnsOnFirstSuccess /\ (FirstTask => StepsLeft' < StepsLeft)]_vars

C28_Witness ==
    /\ FirstTask /\ result = "True"
    /\ max_retries > 0 /\ retry_count = max_retries

ChunksInFlight == Cardinality({k \in 1..Len(s2c) : s2c[k].type = "chunk"})

\* the handler leaves the read of a chunk's reply for the next chunk only with
\* the client's OK
NextOnlyAfterOK ==
    Mayhem /\ spc = "wait_ack" /\ spc' = "for" => c2s # <<>> /\ Head(c2s).type = "OK"

\* C29: in the mayhem variant at most one chunk message is on the connection
\* and not yet answered, and the handler goes on to the next sequence number
\* only when it has read the client's OK for the chunk message it sent last
C29_StopAndWait ==
    /\ [](Mayhem => ChunksInFlight <= 1)
    /\ [][NextOnlyAfterOK]_vars

\* the handler holds the chunk list it made from the upload
Streaming == spc \in {"for", "wait_len_ack", "wait_ack", "wait_result"}

StoredChunksIntact ==
    /\ Mayhem /\ Streaming => chunks = SplitChunks(file_data)
    /\ FirstTask /\ spc = "for" => chunks \in Shuffles(split_file(file_data))

\* the answer to RETRANSMIT:<s> is the chunk s of the upload with its digest
ResendsOriginal ==
    Mayhem /\ spc = "wait_ack" /\ spc' = "wait_len_ack" =>
        LET s == Head(c2s).seq
            payload == SplitChunks(file_data)[s + 1]
        IN json_data' = ChunkJson(s, payload, md5(payload))

\* C30: the fault injector leaves the sender's chunk list alone: while the
\* handler streams, the list is the split of the upload whatever was dropped or
\* corrupted before, no step changes it, and every retransmission carries the
\* original payload of the sequence number asked for with its matching digest
C30_FaultsLeaveChunksIntact ==
    /\ []StoredChunksIntact
    /\ [][(Streaming /\ Streaming' => chunks' = chunks) /\ ResendsOriginal]_vars

C30_Witness ==
    /\ Mayhem /\ StoredChunksIntact
    /\ \E s \in AllSeqs, k \in 1..Len(s2c) :
        /\ InLog(slog, "corrupt") /\ InLog(slog, "drop")
        /\ \E a \in 1..Len(slog) : slog[a].ev = "RETRANSMIT" /\ slog[a].seq = s
        /\ s2c[k] = ChunkJson(s, Original(s), md5(Original(s)))

\* the events of the handler's log that are transmissions of the chunk s: the
\* mayhem handler logs the message it wrote, the first_task handler the
\* payload it put into the chunk frame
SentUnharmed(e, s) ==
    /\ e.seq = s
    /\ IF Mayhem THEN e.ev = "chunk" /\ e.x = Clean(s)
       ELSE e.ev = "pass" /\ e.x = Original(s)

Transmissions(s) ==
    {k \in 1..Len(slog) :
        slog[k].seq = s /\ slog[k].ev = (IF Mayhem THEN "chunk" ELSE "pass")}

EndMarkers == {k \in 1..Len(slog) : slog[k].ev = "end"}

\* C31: with the fault injector switched off the sender transmits no
\* sequence number twice and nothing but the original payloads, and when it has
\* written the end marker it has written it once, after exactly one
\* transmission of every sequence number 0..total_chunks-1
C31_NoFaultExactlyOnce ==
    ~errorsOn =>
        /\ \A k \in 1..Len(slog) :
            slog[k].ev \in {"chunk", "pass"} =>
                /\ slog[k].seq \in AllSeqs
                /\ Cardinality(Transmissions(slog[k].seq)) <= 1
                /\ slog[k].ev = "chunk" => slog[k].x = Clean(slog[k].seq)
                /\ slog[k].ev = "pass" /\ FirstTask => slog[k].x = Original(slog[k].seq)
            /\ slog[k].ev \notin {"drop", "corrupt", "RETRANSMIT"}
        /\ EndMarkers # {} =>
            /\ Cardinality(EndMarkers) = 1
            /\ \A s \in AllSeqs :
                \E k \in Transmissions(s) :
                    /\ SentUnharmed(slog[k], s)
                    /\ \A e \in EndMarkers : k < e

C31_Witness ==
    /\ ~errorsOn
    /\ EndMarkers # {} /\ Len(file) > CHUNK_SIZE
    /\ \A s \in AllSeqs : Cardinality(Transmissions(s)) = 1

\* C32: in the mayhem variant every receive of the client returns exactly
\* one message as the handler wrote it: the checksum is never read merged with
\* the chunk count, and the text the client parses as a chunk message is never
\* a part of one
C32_OneMessagePerReceive ==
    Mayhem =>
        /\ server_checksum.type \in {"none", "checksum"}
        /\ \A k \in 1..Len(s2c) : s2c[k].type # "rest"
        /\ ~InLog(clog, "retransmit_last")

\* the sequence numbers the client expects: range(total_chunks)
ExpectedKeys == 0..(num_chunks - 1)

\* C33: in both clients every key of the reassembly buffer is one of
\* 0..total_chunks-1, and so the number of keys equals total_chunks exactly when
\* the keys are all of 0..total_chunks-1
C33_KeysInRange ==
    /\ Stored \subseteq ExpectedKeys
    /\ (Cardinality(Stored) = num_chunks) <=> (Stored = ExpectedKeys)
    /\ FC_Complete(received, num_chunks) <=> (Stored = ExpectedKeys)

C33_Witness ==
    /\ Mayhem /\ num_chunks >= 2
    /\ InLog(clog, "retransmit")
    /\ Cardinality(Stored) = num_chunks /\ Stored = ExpectedKeys

\* C34: the mayhem client's receive loop never runs out of its
\* 2 * total_chunks iterations while a chunk is missing from the buffer
C34_BudgetNeverExhausted ==
    Mayhem /\ InLog(clog, "exhausted") => Stored = ExpectedKeys

Retransmitted(s) == {k \in 1..Len(slog) : slog[k].ev = "RETRANSMIT" /\ slog[k].seq = s}
Corrupted(s) == {k \in 1..Len(slog) : slog[k].ev = "corrupt" /\ slog[k].seq = s}

\* C35: in a mayhem run in which the injector drops nothing, no corrupted
\* chunk is retransmitted more than once, the session is never stuck before
\* both peers have closed, and when both have closed every corrupted chunk was
\* retransmitted exactly once, the client holds all chunks and has sent SUCCESS
C35_CorruptOnlySucceeds ==
    Mayhem /\ ~InLog(slog, "drop") =>
        /\ \A s \in AllSeqs : Cardinality(Retransmitted(s)) <= Cardinality(Corrupted(s))
        /\ IF cpc = "closed" /\ spc = "closed"
           THEN /\ result = "SUCCESS" /\ Stored = AllSeqs
                /\ \A s \in AllSeqs :
                       Cardinality(Retransmitted(s)) = Cardinality(Corrupted(s))
           ELSE ENABLED Next
====
